---- MODULE Spec2Model ----
(***************************************************************************)
(* Model of porepy's FVElliptic (src/porepy/numerics/fv/fv_elliptic.py):   *)
(* the lazily discretizing elliptic assembler working on a keyed data      *)
(* store shared by several instances, and the interface coupling           *)
(* operations that accumulate into the 3x3 block matrix cc.                *)
(*                                                                         *)
(* Sparse operators are 2x2 integer matrices <<a, b, c, d>> (row major),   *)
(* vectors are pairs; products and transposes are computed, so operand     *)
(* order, transposition and the choice of projection are all observable.   *)
(***************************************************************************)
EXTENDS Integers, Sequences, FiniteSets, TLC

VARIABLES data, cc, matrix, data_edge, ndisc, ncalls, nenv, hist, cc0, last

vars == <<data, cc, matrix, data_edge, ndisc, ncalls, nenv, hist, cc0, last>>

(***************************************************************************)
(* Bounds of the exploration.                                              *)
(***************************************************************************)
MaxCalls == 3

MaxCoupling == 2

MaxEnv == 2

(***************************************************************************)
(* Linear algebra on 2x2 operators (scipy.sparse `*`, `+=`, `-=`, `.T`).   *)
(***************************************************************************)
ZeroMat == <<0, 0, 0, 0>>

MatMul(A, B) ==
    << A[1] * B[1] + A[2] * B[3], A[1] * B[2] + A[2] * B[4],
       A[3] * B[1] + A[4] * B[3], A[3] * B[2] + A[4] * B[4] >>

MatAdd(A, B) == << A[1] + B[1], A[2] + B[2], A[3] + B[3], A[4] + B[4] >>

MatSub(A, B) == << A[1] - B[1], A[2] - B[2], A[3] - B[3], A[4] - B[4] >>

MatNeg(A) == << 0 - A[1], 0 - A[2], 0 - A[3], 0 - A[4] >>

Transpose(A) == << A[1], A[3], A[2], A[4] >>

MatVec(A, v) == << A[1] * v[1] + A[2] * v[2], A[3] * v[1] + A[4] * v[2] >>

ZeroVec == <<0, 0>>

(***************************************************************************)
(* The grid, the two discretization instances and their store keys.        *)
(***************************************************************************)
g == [num_cells |-> 2, cell_faces |-> <<1, 0, -1, 1>>]

Keywords == {"flow", "flow_bound"}

Names == {"flux", "bound_flux", "bound_pressure_cell", "bound_pressure_face"}

key(self) == self \o "_"

ndof(grid) == grid.num_cells

scalar_divergence(grid) == Transpose(grid.cell_faces)

(***************************************************************************)
(* The data store: a function from the keys present to their values.       *)
(***************************************************************************)
Put(d, k, v) == [x \in DOMAIN d \cup {k} |-> IF x = k THEN v ELSE d[x]]

Del(d, k) == [x \in DOMAIN d \ {k} |-> d[x]]

Coefficients == {1, 2}

Scale(c, A) == << c * A[1], c * A[2], c * A[3], c * A[4] >>

ProviderOp(name, c) ==
    CASE name = "flux" -> Scale(c, <<1, -1, 0, 1>>)
      [] name = "bound_flux" -> Scale(c, <<1, 0, 2, 1>>)
      [] name = "bound_pressure_cell" -> <<c, 1, 0, 1>>
      [] name = "bound_pressure_face" -> <<0, c, 1, 0>>

get_bc_val(param, self) == param.bc_val

(***************************************************************************)
(* discretize(g, data) of the flux discretization provider: writes the     *)
(* four operators of the instance, computed from the current coefficient.  *)
(* populate = FALSE is a provider that fails to populate the store.        *)
(***************************************************************************)
discretize(self, grid, d, populate) ==
    IF populate
    THEN LET own == {key(self) \o n : n \in Names}
             nameOf(k) == CHOOSE n \in Names : key(self) \o n = k
         IN [x \in DOMAIN d \cup own |->
                IF x \in own THEN ProviderOp(nameOf(x), d["param"].k) ELSE d[x]]
    ELSE d

(***************************************************************************)
(* The elliptic assembler.  Each operator returns the outcome of one call: *)
(* ok (FALSE: a KeyError reached the caller), the store after the call,    *)
(* the number of discretize calls made, and the value returned.            *)
(***************************************************************************)
extract_pressure(self, grid, solution_array, d) == solution_array

extract_flux(self, grid, solution_array, d) ==
    IF key(self) \o "flux" \in DOMAIN d
    THEN [ok |-> TRUE, vec |-> MatVec(d[key(self) \o "flux"], solution_array)]
    ELSE [ok |-> FALSE, vec |-> ZeroVec]

assemble_matrix_always(self, grid, d, populate) ==
    LET d1 == discretize(self, grid, d, populate)
    IN  IF key(self) \o "flux" \in DOMAIN d1
        THEN [ok |-> TRUE, data |-> d1, disc |-> 1,
              M |-> MatMul(scalar_divergence(grid), d1[key(self) \o "flux"])]
        ELSE [ok |-> FALSE, data |-> d1, disc |-> 1, M |-> ZeroMat]

assemble_matrix(self, grid, d, populate) ==
    LET absent == ~(key(self) \o "flux" \in DOMAIN d)
        d1 == IF absent THEN discretize(self, grid, d, populate) ELSE d
        n == IF absent THEN 1 ELSE 0
    IN  IF key(self) \o "flux" \in DOMAIN d1
        THEN [ok |-> TRUE, data |-> d1, disc |-> n,
              M |-> MatMul(scalar_divergence(grid), d1[key(self) \o "flux"])]
        ELSE [ok |-> FALSE, data |-> d1, disc |-> n, M |-> ZeroMat]

assemble_rhs_retry(self, grid, d, populate) ==
    LET absent == ~(key(self) \o "bound_flux" \in DOMAIN d)
        d1 == IF absent THEN discretize(self, grid, d, populate) ELSE d
        again == absent /\ ~(key(self) \o "bound_flux" \in DOMAIN d1)
        d2 == IF again THEN discretize(self, grid, d1, TRUE) ELSE d1
        n == (IF absent THEN 1 ELSE 0) + (IF again THEN 1 ELSE 0)
    IN  IF key(self) \o "bound_flux" \in DOMAIN d2 /\ "param" \in DOMAIN d2
        THEN [ok |-> TRUE, data |-> d2, disc |-> n,
              vec |-> MatVec(MatMul(MatNeg(Transpose(grid.cell_faces)),
                                    d2[key(self) \o "bound_flux"]),
                             get_bc_val(d2["param"], self))]
        ELSE [ok |-> FALSE, data |-> d2, disc |-> n, vec |-> ZeroVec]

assemble_rhs(self, grid, d, populate) ==
    LET absent == ~(key(self) \o "bound_flux" \in DOMAIN d)
        d1 == IF absent THEN discretize(self, grid, d, populate) ELSE d
        n == IF absent THEN 1 ELSE 0
    IN  IF key(self) \o "bound_flux" \in DOMAIN d1 /\ "param" \in DOMAIN d1
        THEN [ok |-> TRUE, data |-> d1, disc |-> n,
              vec |-> MatVec(MatMul(MatNeg(Transpose(grid.cell_faces)),
                                    d1[key(self) \o "bound_flux"]),
                             get_bc_val(d1["param"], self))]
        ELSE [ok |-> FALSE, data |-> d1, disc |-> n, vec |-> ZeroVec]

assemble_matrix_rhs(self, grid, d, populate1, populate2) ==
    LET m == assemble_matrix(self, grid, d, populate1)
        r == assemble_rhs(self, grid, m.data, populate2)
    IN  IF m.ok
        THEN [ok |-> r.ok, data |-> r.data, disc |-> m.disc + r.disc,
              M |-> m.M, vec |-> r.vec]
        ELSE [ok |-> FALSE, data |-> m.data, disc |-> m.disc,
              M |-> ZeroMat, vec |-> ZeroVec]

(***************************************************************************)
(* The mortar grid of an interface and its two averaging projections.      *)
(***************************************************************************)
MortarGrid == [master |-> <<1, 1, 0, 1>>, slave |-> <<1, 0, 1, 2>>]

master_to_mortar_avg(mg) == mg.master

slave_to_mortar_avg(mg) == mg.slave

SelfInds == {0, 1}

Blocks == (0 .. 2) \X (0 .. 2)

ZeroCC == [b \in Blocks |-> ZeroMat]

BlockAdd(X, Y) == [b \in Blocks |-> MatAdd(X[b], Y[b])]

(***************************************************************************)
(* The interface coupling operations.  Each returns the outcome of one     *)
(* call: ok, and every mutable argument as the call leaves it (cc, data,   *)
(* data_edge, matrix) together with the number of discretize calls made.   *)
(***************************************************************************)
assemble_int_bound_flux_overwrite(self, grid, d, de, grid_swap, c, mat, self_ind) ==
    LET div == Transpose(grid.cell_faces)
        mg == de["mortar_grid"]
        proj == IF grid_swap THEN slave_to_mortar_avg(mg) ELSE master_to_mortar_avg(mg)
    IN  IF key(self) \o "bound_flux" \in DOMAIN d
        THEN [ok |-> TRUE, data |-> d, data_edge |-> de, matrix |-> mat, disc |-> 0,
              cc |-> [c EXCEPT ![<<self_ind, 2>>] =
                        MatMul(MatMul(div, d[key(self) \o "bound_flux"]),
                               Transpose(proj))]]
        ELSE [ok |-> FALSE, data |-> d, data_edge |-> de, matrix |-> mat, disc |-> 0,
              cc |-> c]

assemble_int_bound_flux_swapped(self, grid, d, de, grid_swap, c, mat, self_ind) ==
    LET div == Transpose(grid.cell_faces)
        mg == de["mortar_grid"]
        proj == IF grid_swap THEN master_to_mortar_avg(mg) ELSE slave_to_mortar_avg(mg)
    IN  IF key(self) \o "bound_flux" \in DOMAIN d
        THEN [ok |-> TRUE, data |-> d, data_edge |-> de, matrix |-> mat, disc |-> 0,
              cc |-> [c EXCEPT ![<<self_ind, 2>>] =
                        MatAdd(@, MatMul(MatMul(div, d[key(self) \o "bound_flux"]),
                                         Transpose(proj)))]]
        ELSE [ok |-> FALSE, data |-> d, data_edge |-> de, matrix |-> mat, disc |-> 0,
              cc |-> c]

assemble_int_bound_flux_lazy(self, grid, d, de, grid_swap, c, mat, self_ind) ==
    LET div == Transpose(grid.cell_faces)
        mg == de["mortar_grid"]
        proj == IF grid_swap THEN slave_to_mortar_avg(mg) ELSE master_to_mortar_avg(mg)
        absent == ~(key(self) \o "bound_flux" \in DOMAIN d)
        d1 == IF absent THEN discretize(self, grid, d, TRUE) ELSE d
    IN  [ok |-> TRUE, data |-> d1, data_edge |-> de, matrix |-> mat,
         disc |-> IF absent THEN 1 ELSE 0,
         cc |-> [c EXCEPT ![<<self_ind, 2>>] =
                   MatAdd(@, MatMul(MatMul(div, d1[key(self) \o "bound_flux"]),
                                    Transpose(proj)))]]

assemble_int_bound_flux(self, grid, d, de, grid_swap, c, mat, self_ind) ==
    LET div == Transpose(grid.cell_faces)
        mg == de["mortar_grid"]
        proj == IF grid_swap THEN slave_to_mortar_avg(mg) ELSE master_to_mortar_avg(mg)
    IN  IF key(self) \o "bound_flux" \in DOMAIN d
        THEN [ok |-> TRUE, data |-> d, data_edge |-> de, matrix |-> mat, disc |-> 0,
              cc |-> [c EXCEPT ![<<self_ind, 2>>] =
                        MatAdd(@, MatMul(MatMul(div, d[key(self) \o "bound_flux"]),
                                         Transpose(proj)))]]
        ELSE [ok |-> FALSE, data |-> d, data_edge |-> de, matrix |-> mat, disc |-> 0,
              cc |-> c]

assemble_int_bound_source_same_side(self, grid, d, de, grid_swap, c, mat, self_ind) ==
    LET mg == de["mortar_grid"]
        proj == IF grid_swap THEN slave_to_mortar_avg(mg) ELSE master_to_mortar_avg(mg)
    IN  [ok |-> TRUE, data |-> d, data_edge |-> de, matrix |-> mat, disc |-> 0,
         cc |-> [c EXCEPT ![<<self_ind, 2>>] = MatSub(@, Transpose(proj))]]

assemble_int_bound_source(self, grid, d, de, grid_swap, c, mat, self_ind) ==
    LET mg == de["mortar_grid"]
        proj == IF grid_swap THEN master_to_mortar_avg(mg) ELSE slave_to_mortar_avg(mg)
    IN  [ok |-> TRUE, data |-> d, data_edge |-> de, matrix |-> mat, disc |-> 0,
         cc |-> [c EXCEPT ![<<self_ind, 2>>] = MatSub(@, Transpose(proj))]]

assemble_int_bound_pressure_trace_untransposed(self, grid, d, de, grid_swap, c, mat, self_ind) ==
    LET mg == de["mortar_grid"]
        proj == IF grid_swap THEN slave_to_mortar_avg(mg) ELSE master_to_mortar_avg(mg)
        have_cell == key(self) \o "bound_pressure_cell" \in DOMAIN d
        have_face == key(self) \o "bound_pressure_face" \in DOMAIN d
        c1 == IF have_cell
              THEN [c EXCEPT ![<<2, self_ind>>] =
                      MatAdd(@, MatMul(proj, d[key(self) \o "bound_pressure_cell"]))]
              ELSE c
        c2 == IF have_cell /\ have_face
              THEN [c1 EXCEPT ![<<2, 2>>] =
                      MatAdd(@, MatMul(MatMul(proj, d[key(self) \o "bound_pressure_face"]),
                                       proj))]
              ELSE c1
    IN  [ok |-> have_cell /\ have_face, data |-> d, data_edge |-> de, matrix |-> mat,
         disc |-> 0, cc |-> c2]

assemble_int_bound_pressure_trace(self, grid, d, de, grid_swap, c, mat, self_ind) ==
    LET mg == de["mortar_grid"]
        proj == IF grid_swap THEN slave_to_mortar_avg(mg) ELSE master_to_mortar_avg(mg)
        have_cell == key(self) \o "bound_pressure_cell" \in DOMAIN d
        have_face == key(self) \o "bound_pressure_face" \in DOMAIN d
        c1 == IF have_cell
              THEN [c EXCEPT ![<<2, self_ind>>] =
                      MatAdd(@, MatMul(proj, d[key(self) \o "bound_pressure_cell"]))]
              ELSE c
        c2 == IF have_cell /\ have_face
              THEN [c1 EXCEPT ![<<2, 2>>] =
                      MatAdd(@, MatMul(MatMul(proj, d[key(self) \o "bound_pressure_face"]),
                                       Transpose(proj)))]
              ELSE c1
    IN  [ok |-> have_cell /\ have_face, data |-> d, data_edge |-> de, matrix |-> mat,
         disc |-> 0, cc |-> c2]

assemble_int_bound_pressure_cell(self, grid, d, de, grid_swap, c, mat, self_ind) ==
    LET mg == de["mortar_grid"]
        proj == IF grid_swap THEN master_to_mortar_avg(mg) ELSE slave_to_mortar_avg(mg)
    IN  [ok |-> TRUE, data |-> d, data_edge |-> de, matrix |-> mat, disc |-> 0,
         cc |-> [c EXCEPT ![<<2, self_ind>>] = MatSub(@, proj)]]

enforce_neumann_int_bound_zeroing(self, g_master, de, mat) ==
    [data_edge |-> de, matrix |-> [mat EXCEPT ![1] = 0, ![2] = 0]]

enforce_neumann_int_bound(self, g_master, de, mat) ==
    [data_edge |-> de, matrix |-> mat]

(***************************************************************************)
(* State.  data is the grid's data store, cc the coupling accumulator,     *)
(* matrix the `matrix` argument, data_edge the edge data of each           *)
(* interface, ndisc the discretization-call counter of each instance.      *)
(* last records the most recent call (and the one before it), hist the     *)
(* coupling calls made so far with their inputs, cc0 the initial cc.       *)
(***************************************************************************)
Solutions == {<<1, 2>>}

InitialCC == {ZeroCC, [b \in Blocks |-> <<b[1], b[2], 1, 0>>]}

NoCall ==
    [op |-> "none", kw |-> "none", ok |-> TRUE, M |-> ZeroMat, vec |-> ZeroVec,
     disc |-> 0, grid_swap |-> FALSE, self_ind |-> 0,
     pop |-> "none", pkw |-> "none", pok |-> TRUE]

Call(op, self, ok, M, vec, disc, grid_swap, self_ind) ==
    [op |-> op, kw |-> self, ok |-> ok, M |-> M, vec |-> vec, disc |-> disc,
     grid_swap |-> grid_swap, self_ind |-> self_ind,
     pop |-> last.op, pkw |-> last.kw, pok |-> last.ok]

BaseStore == [x \in {"param"} |-> [k |-> 1, bc_val |-> <<1, 2>>]]

FullStore == discretize("flow_bound", g, discretize("flow", g, BaseStore, TRUE), TRUE)

Init ==
    /\ data = BaseStore
    /\ cc = ZeroCC
    /\ cc0 = cc
    /\ matrix = <<2, 1, 0, 3>>
    /\ data_edge = [mortar_grid |-> MortarGrid]
    /\ ndisc = [self \in Keywords |-> 0]
    /\ ncalls = 0
    /\ nenv = 0
    /\ hist = << >>
    /\ last = NoCall

(***************************************************************************)
(* Calls of the elliptic assembler.                                        *)
(***************************************************************************)
ExtractPressure ==
    \E self \in Keywords, sol \in Solutions :
        /\ ncalls < MaxCalls
        /\ ncalls' = ncalls + 1
        /\ last' = Call("extract_pressure", self, TRUE, ZeroMat,
                        extract_pressure(self, g, sol, data), 0, FALSE, 0)
        /\ UNCHANGED <<data, cc, matrix, data_edge, ndisc, nenv, hist, cc0>>

ExtractFlux ==
    \E self \in Keywords, sol \in Solutions :
        LET r == extract_flux(self, g, sol, data)
        IN  /\ ncalls < MaxCalls
            /\ ncalls' = ncalls + 1
            /\ last' = Call("extract_flux", self, r.ok, ZeroMat, r.vec, 0, FALSE, 0)
            /\ UNCHANGED <<data, cc, matrix, data_edge, ndisc, nenv, hist, cc0>>

AssembleMatrix ==
    \E self \in Keywords, populate \in BOOLEAN :
        LET r == assemble_matrix(self, g, data, populate)
        IN  /\ ncalls < MaxCalls
            /\ ncalls' = ncalls + 1
            /\ data' = r.data
            /\ ndisc' = [ndisc EXCEPT ![self] = @ + r.disc]
            /\ last' = Call("assemble_matrix", self, r.ok, r.M, ZeroVec, r.disc,
                            FALSE, 0)
            /\ UNCHANGED <<cc, matrix, data_edge, nenv, hist, cc0>>

AssembleRhs ==
    \E self \in Keywords, populate \in BOOLEAN :
        LET r == assemble_rhs(self, g, data, populate)
        IN  /\ ncalls < MaxCalls
            /\ ncalls' = ncalls + 1
            /\ data' = r.data
            /\ ndisc' = [ndisc EXCEPT ![self] = @ + r.disc]
            /\ last' = Call("assemble_rhs", self, r.ok, ZeroMat, r.vec, r.disc,
                            FALSE, 0)
            /\ UNCHANGED <<cc, matrix, data_edge, nenv, hist, cc0>>

AssembleMatrixRhs ==
    \E self \in Keywords, populate1 \in BOOLEAN, populate2 \in BOOLEAN :
        LET r == assemble_matrix_rhs(self, g, data, populate1, populate2)
        IN  /\ ncalls < MaxCalls
            /\ ncalls' = ncalls + 1
            /\ data' = r.data
            /\ ndisc' = [ndisc EXCEPT ![self] = @ + r.disc]
            /\ last' = Call("assemble_matrix_rhs", self, r.ok, r.M, r.vec, r.disc,
                            FALSE, 0)
            /\ UNCHANGED <<cc, matrix, data_edge, nenv, hist, cc0>>

EnforceNeumannIntBound ==
    \E self \in Keywords :
        LET r == enforce_neumann_int_bound(self, g, data_edge, matrix)
        IN  /\ ncalls < MaxCalls
            /\ ncalls' = ncalls + 1
            /\ matrix' = r.matrix
            /\ data_edge' = r.data_edge
            /\ last' = Call("enforce_neumann_int_bound", self, TRUE, ZeroMat, ZeroVec,
                            0, FALSE, 0)
            /\ UNCHANGED <<data, cc, ndisc, nenv, hist, cc0>>

(***************************************************************************)
(* Calls of the interface coupling assembler.                              *)
(***************************************************************************)
CouplingOps ==
    {"assemble_int_bound_flux", "assemble_int_bound_source",
     "assemble_int_bound_pressure_trace", "assemble_int_bound_pressure_cell"}

Apply(op, self, d, de, grid_swap, c, mat, self_ind) ==
    CASE op = "assemble_int_bound_flux" ->
            assemble_int_bound_flux(self, g, d, de, grid_swap, c, mat, self_ind)
      [] op = "assemble_int_bound_source" ->
            assemble_int_bound_source(self, g, d, de, grid_swap, c, mat, self_ind)
      [] op = "assemble_int_bound_pressure_trace" ->
            assemble_int_bound_pressure_trace(self, g, d, de, grid_swap, c, mat, self_ind)
      [] op = "assemble_int_bound_pressure_cell" ->
            assemble_int_bound_pressure_cell(self, g, d, de, grid_swap, c, mat, self_ind)

Coupling(op) ==
    \E self \in Keywords, grid_swap \in BOOLEAN, self_ind \in SelfInds :
        LET r == Apply(op, self, data, data_edge, grid_swap, cc, matrix, self_ind)
        IN  /\ Len(hist) < MaxCoupling
            /\ cc' = r.cc
            /\ data' = r.data
            /\ data_edge' = r.data_edge
            /\ matrix' = r.matrix
            /\ ndisc' = [ndisc EXCEPT ![self] = @ + r.disc]
            /\ hist' = Append(hist, [op |-> op, kw |-> self, data |-> data,
                                     data_edge |-> data_edge, matrix |-> matrix,
                                     grid_swap |-> grid_swap, self_ind |-> self_ind])
            /\ last' = Call(op, self, r.ok, ZeroMat, ZeroVec, r.disc,
                            grid_swap, self_ind)
            /\ UNCHANGED <<ncalls, nenv, cc0>>

AssembleIntBoundFlux == Coupling("assemble_int_bound_flux")

AssembleIntBoundSource == Coupling("assemble_int_bound_source")

AssembleIntBoundPressureTrace == Coupling("assemble_int_bound_pressure_trace")

AssembleIntBoundPressureCell == Coupling("assemble_int_bound_pressure_cell")

(***************************************************************************)
(* The caller, who owns the store: a coefficient change, and the           *)
(* invalidation of a cached operator.                                      *)
(***************************************************************************)
SetParam ==
    \E c \in Coefficients \ {data["param"].k} :
        /\ nenv < MaxEnv
        /\ nenv' = nenv + 1
        /\ data' = Put(data, "param", [data["param"] EXCEPT !.k = c])
        /\ last' = Call("set_param", "none", TRUE, ZeroMat, ZeroVec, 0, FALSE, 0)
        /\ UNCHANGED <<cc, matrix, data_edge, ndisc, ncalls, hist, cc0>>

Invalidate ==
    \E k \in DOMAIN data \ {"param"} :
        /\ nenv < MaxEnv
        /\ nenv' = nenv + 1
        /\ data' = Del(data, k)
        /\ last' = Call("invalidate", "none", TRUE, ZeroMat, ZeroVec, 0, FALSE, 0)
        /\ UNCHANGED <<cc, matrix, data_edge, ndisc, ncalls, hist, cc0>>

Next ==
    \/ ExtractPressure
    \/ ExtractFlux
    \/ AssembleMatrix
    \/ AssembleRhs
    \/ AssembleMatrixRhs
    \/ EnforceNeumannIntBound
    \/ SetParam
    \/ Invalidate

Spec == Init /\ [][Next]_vars

(***************************************************************************)
(* The coupling phase: the orchestrator calls the coupling operations on   *)
(* a store the assembly phase has left: never discretized, discretized by  *)
(* both instances, or discretized and then invalidated in one key by the   *)
(* caller (each is a state Spec reaches); any initial accumulator.         *)
(***************************************************************************)
CouplingStores ==
    {BaseStore, FullStore} \cup {Del(FullStore, k) : k \in DOMAIN FullStore \ {"param"}}

InitCoupling ==
    /\ data \in CouplingStores
    /\ cc \in InitialCC
    /\ cc0 = cc
    /\ matrix = <<2, 1, 0, 3>>
    /\ data_edge = [mortar_grid |-> MortarGrid]
    /\ ndisc = [self \in Keywords |-> 0]
    /\ ncalls = 0
    /\ nenv = 0
    /\ hist = << >>
    /\ last = NoCall

NextCoupling ==
    \/ AssembleIntBoundFlux
    \/ AssembleIntBoundSource
    \/ AssembleIntBoundPressureTrace
    \/ AssembleIntBoundPressureCell

SpecCoupling == InitCoupling /\ [][NextCoupling]_vars

(***************************************************************************)
(* Steps, as the properties below recognise them.                          *)
(***************************************************************************)
AssemblerStep(op) == ncalls' = ncalls + 1 /\ last'.op = op

CouplingStep(op) == Len(hist') = Len(hist) + 1 /\ last'.op = op

Div == Transpose(g.cell_faces)

FluxProjection(grid_swap) ==
    IF grid_swap THEN MortarGrid.slave ELSE MortarGrid.master

OtherProjection(grid_swap) ==
    IF grid_swap THEN MortarGrid.master ELSE MortarGrid.slave

SameExcept(c1, c2, blocks) == \A b \in Blocks \ blocks : c1[b] = c2[b]

(***************************************************************************)
(* C1.  Two consecutive assemble_matrix calls of one instance, the first   *)
(* of which returned: the second returns the identical matrix and leaves   *)
(* every discretization-call counter where the first left it.              *)
(***************************************************************************)
C1_SecondCallReusesCache ==
    [][ ( /\ last.op = "assemble_matrix"
          /\ last.ok
          /\ AssemblerStep("assemble_matrix")
          /\ last'.kw = last.kw )
        => ( /\ last'.ok
             /\ last'.M = last.M
             /\ ndisc' = ndisc ) ]_vars

C1_Witness ==
    /\ last.op = "assemble_matrix"
    /\ last.pop = "assemble_matrix"
    /\ last.kw = last.pkw
    /\ last.ok
    /\ last.pok
    /\ ndisc[last.kw] = 1

(***************************************************************************)
(* C2 (as claimed).  No call of one instance adds, removes or changes a    *)
(* store entry under a key of another instance.                            *)
(***************************************************************************)
C2_NoCrossInstanceWrite ==
    [][ \A self \in Keywords :
          (ncalls' = ncalls + 1 /\ last'.kw = self)
          => \A other \in Keywords \ {self} : \A n \in Names :
                LET k == key(other) \o n
                IN  /\ (k \in DOMAIN data) = (k \in DOMAIN data')
                    /\ (k \in DOMAIN data => data'[k] = data[k]) ]_vars

(***************************************************************************)
(* C7.  enforce_neumann_int_bound changes nothing: not its matrix          *)
(* argument, not the edge data, not the store, not cc, and it makes no     *)
(* discretize call.                                                        *)
(***************************************************************************)
C7_EnforceNeumannIsNoOp ==
    [][ AssemblerStep("enforce_neumann_int_bound")
        => UNCHANGED <<matrix, data_edge, data, cc, ndisc>> ]_vars

C7_Witness ==
    /\ last.op = "enforce_neumann_int_bound"
    /\ last.pop = "assemble_matrix"
    /\ last.pok

(***************************************************************************)
(* C8.  assemble_matrix calls discretize once when its flux key is         *)
(* absent and not at all when it is present; assemble_rhs likewise for     *)
(* its bound_flux key; no other instance's counter moves; and the call     *)
(* fails exactly when the key is still absent after that one attempt.      *)
(***************************************************************************)
C8_DiscretizeOnlyOnMissingKeyNoRetry ==
    [][ \A self \in Keywords :
          /\ (AssemblerStep("assemble_matrix") /\ last'.kw = self)
             => LET k == key(self) \o "flux"
                IN  /\ ndisc'[self] = ndisc[self] + (IF k \in DOMAIN data THEN 0 ELSE 1)
                    /\ \A o \in Keywords \ {self} : ndisc'[o] = ndisc[o]
                    /\ last'.ok = (k \in DOMAIN data')
          /\ (AssemblerStep("assemble_rhs") /\ last'.kw = self)
             => LET k == key(self) \o "bound_flux"
                IN  /\ ndisc'[self] = ndisc[self] + (IF k \in DOMAIN data THEN 0 ELSE 1)
                    /\ \A o \in Keywords \ {self} : ndisc'[o] = ndisc[o]
                    /\ last'.ok = (k \in DOMAIN data') ]_vars

C8_Witness ==
    /\ last.op = "assemble_rhs"
    /\ ~last.ok
    /\ ~(key(last.kw) \o "bound_flux" \in DOMAIN data)
    /\ ndisc[last.kw] = 1
    /\ last.disc = 1

(***************************************************************************)
(* C9 (as claimed), for an instance acting alone on the store: once its    *)
(* flux key is present, none of its calls removes the entry or replaces    *)
(* its value, and the matrix assemble_matrix_rhs returns is the            *)
(* divergence times the flux operator the call leaves in the store.        *)
(***************************************************************************)
C9_FluxNeverInvalidated ==
    [][ \A self \in Keywords :
          LET k == key(self) \o "flux"
          IN  ( /\ ncalls' = ncalls + 1
                /\ last'.kw = self
                /\ \A o \in Keywords \ {self} : ndisc[o] = 0 /\ ndisc'[o] = 0
                /\ k \in DOMAIN data )
              => ( /\ k \in DOMAIN data'
                   /\ data'[k] = data[k]
                   /\ (last'.op = "assemble_matrix_rhs" /\ last'.ok)
                      => last'.M = MatMul(scalar_divergence(g), data'[k]) ) ]_vars

(***************************************************************************)
(* C3 (as claimed).  A completed assemble_int_bound_flux call adds         *)
(* cell_faces^T * bound_flux * projection^T into block [0,2], whatever     *)
(* self_ind is, and changes no other block.                                *)
(***************************************************************************)
C3_FluxIntoBlock02 ==
    [][ (CouplingStep("assemble_int_bound_flux") /\ last'.ok)
        => cc' = [cc EXCEPT ![<<0, 2>>] =
                    MatAdd(@, MatMul(MatMul(Div, data[key(last'.kw) \o "bound_flux"]),
                                     Transpose(FluxProjection(last'.grid_swap))))] ]_vars

(***************************************************************************)
(* C3 (amended).  A completed assemble_int_bound_flux call adds            *)
(* cell_faces^T * bound_flux * projection^T into block [self_ind,2]        *)
(* (projection: slave_to_mortar_avg when grid_swap, else                   *)
(* master_to_mortar_avg) and changes no other block; a call that fails on  *)
(* the missing key leaves cc as it was.                                    *)
(***************************************************************************)
C3_FluxIntoBlockSelfInd2 ==
    [][ CouplingStep("assemble_int_bound_flux")
        => IF last'.ok
           THEN cc' = [cc EXCEPT ![<<last'.self_ind, 2>>] =
                         MatAdd(@, MatMul(MatMul(Div, data[key(last'.kw) \o "bound_flux"]),
                                          Transpose(FluxProjection(last'.grid_swap))))]
           ELSE cc' = cc ]_vars

C3_Witness ==
    /\ last.op = "assemble_int_bound_flux"
    /\ last.ok
    /\ last.self_ind = 1
    /\ last.grid_swap
    /\ cc # cc0

(***************************************************************************)
(* C4 (as claimed).  assemble_int_bound_source subtracts projection^T,     *)
(* with the projection assemble_int_bound_flux does not select for the     *)
(* same grid_swap, from block [0,2]; no operator of the store enters.      *)
(***************************************************************************)
C4_SourceIntoBlock02 ==
    [][ CouplingStep("assemble_int_bound_source")
        => /\ last'.ok
           /\ cc' = [cc EXCEPT ![<<0, 2>>] =
                       MatSub(@, Transpose(OtherProjection(last'.grid_swap)))] ]_vars

(***************************************************************************)
(* C4 (amended).  The same, into block [self_ind,2]: the call always       *)
(* completes, subtracts the transpose of master_to_mortar_avg when         *)
(* grid_swap and of slave_to_mortar_avg otherwise (the projection flux     *)
(* continuity selects for the opposite grid_swap, and a different one      *)
(* for the same), and changes no other block.                              *)
(***************************************************************************)
C4_SourceIntoBlockSelfInd2 ==
    [][ CouplingStep("assemble_int_bound_source")
        => /\ last'.ok
           /\ OtherProjection(last'.grid_swap) = FluxProjection(~last'.grid_swap)
           /\ OtherProjection(last'.grid_swap) # FluxProjection(last'.grid_swap)
           /\ cc' = [cc EXCEPT ![<<last'.self_ind, 2>>] =
                       MatSub(@, Transpose(OtherProjection(last'.grid_swap)))] ]_vars

C4_Witness ==
    /\ last.op = "assemble_int_bound_source"
    /\ last.ok
    /\ last.self_ind = 1
    /\ last.grid_swap
    /\ data = BaseStore
    /\ cc # cc0

(***************************************************************************)
(* C5 (as claimed).  A completed assemble_int_bound_pressure_trace call    *)
(* adds projection * bound_pressure_cell into block [2,0] and              *)
(* projection * bound_pressure_face * projection^T into block [2,2],       *)
(* and changes no other block.                                             *)
(***************************************************************************)
C5_TraceIntoBlocks20And22 ==
    [][ (CouplingStep("assemble_int_bound_pressure_trace") /\ last'.ok)
        => LET proj == FluxProjection(last'.grid_swap)
               bpc == data[key(last'.kw) \o "bound_pressure_cell"]
               bpf == data[key(last'.kw) \o "bound_pressure_face"]
           IN  cc' = [cc EXCEPT ![<<2, 0>>] = MatAdd(@, MatMul(proj, bpc)),
                                ![<<2, 2>>] = MatAdd(@, MatMul(MatMul(proj, bpf),
                                                               Transpose(proj)))] ]_vars

(***************************************************************************)
(* C5 (amended).  A completed call adds projection * bound_pressure_cell   *)
(* into block [2,self_ind] and                                             *)
(* projection * bound_pressure_face * projection^T into block [2,2],       *)
(* with the one projection flux continuity selects for that grid_swap,     *)
(* and changes no other block; a failed call changes at most block         *)
(* [2,self_ind].                                                           *)
(***************************************************************************)
C5_TraceIntoBlocks2SelfIndAnd22 ==
    [][ CouplingStep("assemble_int_bound_pressure_trace")
        => IF last'.ok
           THEN LET proj == FluxProjection(last'.grid_swap)
                    bpc == data[key(last'.kw) \o "bound_pressure_cell"]
                    bpf == data[key(last'.kw) \o "bound_pressure_face"]
                IN  cc' = [cc EXCEPT
                             ![<<2, last'.self_ind>>] = MatAdd(@, MatMul(proj, bpc)),
                             ![<<2, 2>>] = MatAdd(@, MatMul(MatMul(proj, bpf),
                                                            Transpose(proj)))]
           ELSE SameExcept(cc', cc, {<<2, last'.self_ind>>}) ]_vars

C5_Witness ==
    /\ last.op = "assemble_int_bound_pressure_trace"
    /\ last.ok
    /\ last.self_ind = 1
    /\ cc[<<2, 1>>] # cc0[<<2, 1>>]
    /\ cc[<<2, 2>>] # cc0[<<2, 2>>]

(***************************************************************************)
(* C6.  The coupling calls accumulate: cc is the initial cc plus the sum   *)
(* of what each call made so far produces, for its inputs, on a zero       *)
(* accumulator; and replaying the calls from the initial cc in any order   *)
(* ends in the same cc.                                                    *)
(***************************************************************************)
OnAccumulator(h, c) ==
    Apply(h.op, h.kw, h.data, h.data_edge, h.grid_swap, c, h.matrix, h.self_ind).cc

RECURSIVE SumOfSingleCalls(_)
SumOfSingleCalls(n) ==
    IF n = 0 THEN ZeroCC
    ELSE BlockAdd(SumOfSingleCalls(n - 1), OnAccumulator(hist[n], ZeroCC))

RECURSIVE Replay(_, _, _)
Replay(order, n, c) ==
    IF n = 0 THEN c
    ELSE OnAccumulator(hist[order[n]], Replay(order, n - 1, c))

Orders(n) == {f \in [1 .. n -> 1 .. n] : \A i, j \in 1 .. n : f[i] = f[j] => i = j}

C6_CouplingAccumulates ==
    /\ cc = BlockAdd(cc0, SumOfSingleCalls(Len(hist)))
    /\ \A order \in Orders(Len(hist)) : Replay(order, Len(hist), cc0) = cc

C6_Witness ==
    /\ Len(hist) = 2
    /\ hist[1].op = "assemble_int_bound_flux"
    /\ hist[2].op = "assemble_int_bound_flux"
    /\ hist[1].grid_swap # hist[2].grid_swap
    /\ hist[1].self_ind = hist[2].self_ind
    /\ last.ok
    /\ last.pok
    /\ cc0 = ZeroCC
    /\ cc # ZeroCC

(***************************************************************************)
(* C10.  A coupling call makes no discretize call and leaves the store,    *)
(* the edge data and the matrix argument as they were; when a key it       *)
(* reads is absent from the store it fails, and otherwise it completes.    *)
(***************************************************************************)
KeysRead(op, self) ==
    CASE op = "assemble_int_bound_flux" -> {key(self) \o "bound_flux"}
      [] op = "assemble_int_bound_pressure_trace" ->
            {key(self) \o "bound_pressure_cell", key(self) \o "bound_pressure_face"}
      [] OTHER -> {}

C10_CouplingFrame ==
    [][ \A op \in CouplingOps :
          CouplingStep(op)
          => /\ UNCHANGED <<data, data_edge, matrix, ndisc>>
             /\ last'.ok = (KeysRead(op, last'.kw) \subseteq DOMAIN data) ]_vars

C10_Witness ==
    /\ last.op = "assemble_int_bound_flux"
    /\ ~last.ok
    /\ ~(key(last.kw) \o "bound_flux" \in DOMAIN data)
    /\ cc = cc0

====
